---- MODULE Spec2Model ----
(***************************************************************************)
(* ParcelStore (src/parcel.go): a repository over the single SQL table     *)
(* "parcel".  Every method issues exactly one SQL statement through        *)
(* database/sql; the store keeps no state of its own besides the handle.   *)
(*                                                                         *)
(* The table is modelled as the set of its rows.  The engine is a working  *)
(* handle: a statement fails only for a reason the data decides (the only  *)
(* one here is QueryRow(...).Scan on an empty result, sql.ErrNoRows).      *)
(* The DDL of the table and the Parcel struct are not part of parcel.go;   *)
(* the column order and the AUTOINCREMENT key are taken from the schema    *)
(* given in the specification, section 6.                                  *)
(***************************************************************************)
EXTENDS Integers, Sequences, FiniteSets, TLC

VARIABLES
    table,   \* the rows of table parcel
    seq,     \* the engine's AUTOINCREMENT counter: largest number ever assigned
    last,    \* history: the last completed call, its arguments and results
    before,  \* history: the table when the last call (Spec) / the race (SpecConc) began
    issued,  \* history: the numbers returned by Add, oldest first
    left,    \* history: one watched parcel whose status left "registered"
    pc,      \* SpecConc: the position of each concurrent caller
    call,    \* SpecConc: the call each concurrent caller makes
    order    \* SpecConc: the callers in the order their statements executed

vars == <<table, seq, last, before, issued, left, pc, call, order>>

----------------------------------------------------------------------------
(* Bounds and input domains *)

MaxNumber == 2

Clients == {1, 2}
Registered == "registered"
Statuses == {Registered, "sent"}
Addresses == {"test", "new address"}
CreatedAts == {"2024-01-01T00:00:00Z"}

\* numbers a caller may pass: assigned ones, 0 and one beyond the cap
NumberArgs == 0 .. (MaxNumber + 1)
\* the Number field of a Parcel handed to Add: unset, or that of an earlier parcel
StaleNumbers == {0, 1}

\* Go's zero value Parcel{} (parcel.go:37, parcel.go:58)
ZeroParcel ==
    [Number |-> 0, Client |-> 0, Status |-> "", Address |-> "", CreatedAt |-> ""]

Parcels ==
    [Number : StaleNumbers, Client : Clients, Status : Statuses,
     Address : Addresses, CreatedAt : CreatedAts]

ErrNil == "nil"
ErrNoRows == "sql: no rows in result set"

----------------------------------------------------------------------------
(* The engine and the schema *)

\* column order of the table, which SELECT * follows
SelectStar(r) == <<r.number, r.client, r.status, r.address, r.created_at>>

\* AUTOINCREMENT: one more than the largest key ever assigned
NextNumber(sq) == sq + 1

Numbers(tbl) == {r.number : r \in tbl}

\* every enumeration of a result set: the engine imposes no order
Orders(S) ==
    {s \in [1 .. Cardinality(S) -> S] :
        \A i, j \in 1 .. Cardinality(S) : i # j => s[i] # s[j]}

----------------------------------------------------------------------------
(* The statements of parcel.go *)

\* row.Scan(&p.Number, &p.Client, &p.Status, &p.Address, &p.CreatedAt)
Scan(cols) ==
    [Number |-> cols[1], Client |-> cols[2], Status |-> cols[3],
     Address |-> cols[4], CreatedAt |-> cols[5]]

InsertValuesSwapped(p) ==
    [client |-> p.Client, status |-> p.Address, address |-> p.Status,
     created_at |-> p.CreatedAt]

\* INSERT INTO parcel (client, status, address, created_at) VALUES (?, ?, ?, ?)
InsertValues(p) ==
    [client |-> p.Client, status |-> p.Status, address |-> p.Address,
     created_at |-> p.CreatedAt]

\* db.Exec of the INSERT: the new table and the sql.Result
ExecInsert(tbl, sq, p) ==
    LET v == InsertValues(p)
        n == NextNumber(sq)
        r == [number |-> n, client |-> v.client, status |-> v.status,
              address |-> v.address, created_at |-> v.created_at]
    IN  [table |-> tbl \cup {r},
         result |-> [lastInsertId |-> n, rowsAffected |-> 1]]

AddReturnRowsAffected(result) == result.rowsAffected

\* id, err := result.LastInsertId(); return int(id), nil
AddReturn(result) == result.lastInsertId

\* WHERE number = ?
GetWhere(r, number) == r.number = number

\* QueryRow + Scan: the first matching row, or ErrNoRows with p untouched
GetResult(tbl, number) ==
    LET m == {r \in tbl : GetWhere(r, number)}
    IN  IF m = {}
        THEN [p |-> ZeroParcel, err |-> ErrNoRows]
        ELSE [p |-> Scan(SelectStar(CHOOSE r \in m : TRUE)), err |-> ErrNil]

\* WHERE client = ?
GetByClientWhere(r, client) == r.client = client

ScanAllFirstOnly(rows) ==
    [i \in 1 .. (IF Len(rows) = 0 THEN 0 ELSE 1) |-> Scan(SelectStar(rows[i]))]

\* for rows.Next() { Scan; res = append(res, p) }
ScanAll(rows) == [i \in 1 .. Len(rows) |-> Scan(SelectStar(rows[i]))]

\* the results GetByClient may return: one per order the engine may use
GetByClientResults(tbl, client) ==
    {ScanAll(rows) : rows \in Orders({r \in tbl : GetByClientWhere(r, client)})}

SetStatusWhereGated(r, number) == r.number = number /\ r.status = Registered

\* WHERE number = ?
SetStatusWhere(r, number) == r.number = number

\* UPDATE parcel SET status = ? WHERE number = ?
ExecSetStatus(tbl, number, status) ==
    {IF SetStatusWhere(r, number) THEN [r EXCEPT !.status = status] ELSE r :
        r \in tbl}

SetAddressWhereUngated(r, number) == r.number = number

SetAddressWhereOr(r, number) == r.number = number \/ r.status = Registered

\* WHERE number = ? AND status = 'registered'
SetAddressWhere(r, number) == r.number = number /\ r.status = Registered

\* UPDATE parcel SET address = ? WHERE number = ? AND status = 'registered'
ExecSetAddress(tbl, number, address) ==
    {IF SetAddressWhere(r, number) THEN [r EXCEPT !.address = address] ELSE r :
        r \in tbl}

DeleteWhereUngated(r, number) == r.number = number

DeleteWhereNotRegistered(r, number) == r.number = number /\ r.status # Registered

\* WHERE number = ? AND status = 'registered'
DeleteWhere(r, number) == r.number = number /\ r.status = Registered

\* DELETE FROM parcel WHERE number = ? AND status = 'registered'
ExecDelete(tbl, number) == {r \in tbl : ~DeleteWhere(r, number)}

----------------------------------------------------------------------------
(* History bookkeeping *)

NoCall ==
    [op |-> "none", number |-> 0, client |-> 0, text |-> "", p |-> ZeroParcel,
     err |-> ErrNil, id |-> 0, parcel |-> ZeroParcel, parcels |-> <<>>]

NoWatch == [number |-> 0, address |-> "", reopened |-> FALSE]

\* the watched parcel after SetStatus(number, status) ran on tbl;
\* watch says whether an unwatched model starts watching at this call
LeftAfter(l, tbl, number, status, watch) ==
    LET m == {r \in tbl : r.number = number}
    IN  IF m = {} THEN l
        ELSE IF status # Registered
        THEN IF l.number = number \/ (l = NoWatch /\ watch)
             THEN [number |-> number,
                   address |-> (CHOOSE r \in m : TRUE).address,
                   reopened |-> FALSE]
             ELSE l
        ELSE IF l.number = number THEN [l EXCEPT !.reopened = TRUE]
        ELSE l

Procs == {"status", "gate"}

Idle == [p \in Procs |-> "idle"]

----------------------------------------------------------------------------
(* One caller: every method is one action *)

Init ==
    /\ table = {}
    /\ seq = 0
    /\ last = NoCall
    /\ before = {}
    /\ issued = <<>>
    /\ left = NoWatch
    /\ pc = Idle
    /\ call = [p \in Procs |-> NoCall]
    /\ order = <<>>

Add(p) ==
    /\ seq < MaxNumber
    /\ LET x == ExecInsert(table, seq, p)
           id == AddReturn(x.result)
       IN  /\ table' = x.table
           /\ seq' = x.result.lastInsertId
           /\ last' = [NoCall EXCEPT !.op = "Add", !.p = p, !.id = id]
           /\ issued' = Append(issued, id)
    /\ before' = table
    /\ UNCHANGED <<left, pc, call, order>>

Get(number) ==
    /\ LET g == GetResult(table, number)
       IN  last' = [NoCall EXCEPT !.op = "Get", !.number = number,
                                  !.parcel = g.p, !.err = g.err]
    /\ before' = table
    /\ UNCHANGED <<table, seq, issued, left, pc, call, order>>

GetByClient(client) ==
    /\ \E res \in GetByClientResults(table, client) :
          last' = [NoCall EXCEPT !.op = "GetByClient", !.client = client,
                                 !.parcels = res]
    /\ before' = table
    /\ UNCHANGED <<table, seq, issued, left, pc, call, order>>

SetStatus(number, status) ==
    /\ table' = ExecSetStatus(table, number, status)
    /\ last' = [NoCall EXCEPT !.op = "SetStatus", !.number = number,
                              !.text = status]
    /\ before' = table
    /\ \E watch \in BOOLEAN :
          left' = LeftAfter(left, table, number, status, watch)
    /\ UNCHANGED <<seq, issued, pc, call, order>>

SetAddress(number, address) ==
    /\ table' = ExecSetAddress(table, number, address)
    /\ last' = [NoCall EXCEPT !.op = "SetAddress", !.number = number,
                              !.text = address]
    /\ before' = table
    /\ UNCHANGED <<seq, issued, left, pc, call, order>>

Delete(number) ==
    /\ table' = ExecDelete(table, number)
    /\ last' = [NoCall EXCEPT !.op = "Delete", !.number = number]
    /\ before' = table
    /\ UNCHANGED <<seq, issued, left, pc, call, order>>

Next ==
    \/ \E p \in Parcels : Add(p)
    \/ \E n \in NumberArgs : Get(n)
    \/ \E c \in Clients \cup {0} : GetByClient(c)
    \/ \E n \in NumberArgs, s \in Statuses : SetStatus(n, s)
    \/ \E n \in NumberArgs, a \in Addresses : SetAddress(n, a)
    \/ \E n \in NumberArgs : Delete(n)

Spec == Init /\ [][Next]_vars

----------------------------------------------------------------------------
(* Two concurrent callers on one registered parcel: SetStatus against       *)
(* SetAddress or Delete.  Each method is one db.Exec, which the engine runs *)
(* atomically, followed by the return.                                      *)

\* the tables the store can hold: at most one row per assigned number
TablesUpTo(sq) ==
    LET RowOrNone ==
            [client : Clients, status : Statuses, address : Addresses,
             created_at : CreatedAts] \cup {[client |-> 0]}
    IN  {{[number |-> n, client |-> f[n].client, status |-> f[n].status,
           address |-> f[n].address, created_at |-> f[n].created_at] :
             n \in {m \in 1 .. sq : f[m] # [client |-> 0]}} :
         f \in [1 .. sq -> RowOrNone]}

InitConc ==
    /\ seq \in 1 .. MaxNumber
    /\ table \in TablesUpTo(seq)
    /\ before = table
    /\ issued = [i \in 1 .. seq |-> i]
    /\ last = NoCall
    /\ left = NoWatch
    /\ order = <<>>
    /\ pc = [p \in Procs |-> "exec"]
    /\ \E r \in table, s \in Statuses \ {Registered}, a \in Addresses,
          op \in {"SetAddress", "Delete"} :
          /\ r.status = Registered
          /\ call = [p \in Procs |->
                        IF p = "status"
                        THEN [NoCall EXCEPT !.op = "SetStatus",
                                            !.number = r.number, !.text = s]
                        ELSE [NoCall EXCEPT !.op = op, !.number = r.number,
                                  !.text = IF op = "SetAddress" THEN a ELSE ""]]

ConcSetStatus(self) ==
    /\ pc[self] = "exec"
    /\ call[self].op = "SetStatus"
    /\ table' = ExecSetStatus(table, call[self].number, call[self].text)
    /\ pc' = [pc EXCEPT ![self] = "ret"]
    /\ order' = Append(order, self)
    /\ UNCHANGED <<seq, last, before, issued, left, call>>

ConcSetAddress(self) ==
    /\ pc[self] = "exec"
    /\ call[self].op = "SetAddress"
    /\ table' = ExecSetAddress(table, call[self].number, call[self].text)
    /\ pc' = [pc EXCEPT ![self] = "ret"]
    /\ order' = Append(order, self)
    /\ UNCHANGED <<seq, last, before, issued, left, call>>

ConcDelete(self) ==
    /\ pc[self] = "exec"
    /\ call[self].op = "Delete"
    /\ table' = ExecDelete(table, call[self].number)
    /\ pc' = [pc EXCEPT ![self] = "ret"]
    /\ order' = Append(order, self)
    /\ UNCHANGED <<seq, last, before, issued, left, call>>

\* return err
ConcReturn(self) ==
    /\ pc[self] = "ret"
    /\ pc' = [pc EXCEPT ![self] = "done"]
    /\ UNCHANGED <<table, seq, last, before, issued, left, call, order>>

NextConc ==
    \E self \in Procs :
        \/ ConcSetStatus(self)
        \/ ConcSetAddress(self)
        \/ ConcDelete(self)
        \/ ConcReturn(self)

SpecConc == InitConc /\ [][NextConc]_vars

----------------------------------------------------------------------------
(* Properties *)

RowsOf(tbl, number) == {r \in tbl : r.number = number}

Returned == {issued[i] : i \in DOMAIN issued}

NotFound == [p |-> ZeroParcel, err |-> ErrNoRows]

\* C1: SetAddress(n, a) returns success; when row n exists with status
\* "registered" only the address of row n becomes a, and in every other case
\* (row n missing, or present with another status) the table is unchanged and
\* Get(n) answers as before.
C1_SetAddressGate ==
    last.op = "SetAddress" =>
        LET hit == {r \in before : r.number = last.number /\ r.status = Registered}
        IN  /\ last.err = ErrNil
            /\ table # before => hit # {}
            /\ hit # {} =>
                  /\ table = (before \ hit)
                                \cup {[r EXCEPT !.address = last.text] : r \in hit}
                  /\ GetResult(table, last.number).p.Address = last.text
            /\ hit = {} =>
                  /\ table = before
                  /\ GetResult(table, last.number) = GetResult(before, last.number)

C1_Witness ==
    /\ last.op = "SetAddress"
    /\ \E r \in before :
          /\ r.number = last.number
          /\ r.status # Registered
          /\ r.address # last.text
    /\ \E r \in before : r.number # last.number

\* C2: Delete(n) returns success and removes row n exactly when row n exists
\* with status "registered"; with any other status the table is unchanged and
\* Get(n) still returns the same parcel; no other row is removed or changed.
C2_DeleteGate ==
    last.op = "Delete" =>
        LET hit == {r \in before : r.number = last.number /\ r.status = Registered}
        IN  /\ last.err = ErrNil
            /\ table = before \ hit
            /\ hit # {} <=> table # before
            /\ \A r \in before :
                  r.number = last.number /\ r.status # Registered =>
                      /\ table = before
                      /\ GetResult(table, last.number).err = ErrNil
                      /\ GetResult(table, last.number)
                            = GetResult(before, last.number)

C2_Witness ==
    /\ last.op = "Delete"
    /\ \E r \in before : r.number = last.number /\ r.status # Registered
    /\ \E r \in before : r.number # last.number /\ r.status = Registered

\* C3 as stated: once the status of a parcel has been set to a value other
\* than "registered", the parcel exists and keeps the address it had at that
\* moment after any further sequence of calls.
C3_FrozenForever ==
    left # NoWatch =>
        \E r \in table : r.number = left.number /\ r.address = left.address

\* C3 as amended: the same, for as long as no SetStatus call has set the
\* status of the parcel back to "registered".
C3_FrozenWhileNotReopened ==
    (left # NoWatch /\ ~left.reopened) =>
        \E r \in table :
            /\ r.number = left.number
            /\ r.address = left.address
            /\ r.status # Registered

C3_Witness ==
    /\ left # NoWatch
    /\ ~left.reopened
    /\ last.op = "SetAddress"
    /\ last.number = left.number
    /\ last.text # left.address

\* C5: right after Add(p) returned N, Get(N) succeeds and returns p with its
\* Number replaced by N, whatever Number p carried.
C5_AddGetRoundTrip ==
    last.op = "Add" =>
        /\ last.err = ErrNil
        /\ GetResult(table, last.id)
              = [p |-> [last.p EXCEPT !.Number = last.id], err |-> ErrNil]

C5_Witness ==
    /\ last.op = "Add"
    /\ last.p.Number # 0
    /\ last.p.Number # last.id
    /\ before # {}

\* C6: after a Delete that removed registered row N, Get(N) fails with
\* ErrNoRows; SetStatus, SetAddress and Delete on a missing number leave it
\* missing; and Get answers the same for a deleted number and for one that
\* was never assigned.
C6_DeletedStaysNotFound ==
    /\ (last.op = "Delete" /\ \E r \in before :
                                r.number = last.number /\ r.status = Registered)
          => GetResult(table, last.number) = NotFound
    /\ (last.op \in {"SetStatus", "SetAddress", "Delete"}
            /\ last.number \notin Numbers(before))
          => GetResult(table, last.number) = NotFound
    /\ (last.op = "Get" /\ last.number \notin Numbers(before))
          => [p |-> last.parcel, err |-> last.err] = NotFound
    /\ \A n \in NumberArgs :
          n \notin Numbers(table) => GetResult(table, n) = NotFound

C6_Witness ==
    /\ last.op = "Get"
    /\ last.number \in Returned
    /\ last.err = ErrNoRows
    /\ \E n \in NumberArgs \ {0} : n \notin Returned

\* C7: SetStatus(n, s) on an existing row n, whatever its status, returns
\* success, makes Get(n) return status s and changes nothing else.
C7_SetStatusUnconditional ==
    (last.op = "SetStatus" /\ last.number \in Numbers(before)) =>
        LET old == RowsOf(before, last.number)
        IN  /\ last.err = ErrNil
            /\ GetResult(table, last.number).err = ErrNil
            /\ GetResult(table, last.number).p.Status = last.text
            /\ table = (before \ old)
                          \cup {[r EXCEPT !.status = last.text] : r \in old}

C7_Witness ==
    /\ last.op = "SetStatus"
    /\ last.text = Registered
    /\ \E r \in before : r.number = last.number /\ r.status # Registered
    /\ \E r \in before : r.number # last.number

\* C8: GetByClient(c) returns success with exactly the rows of client c, each
\* once and with its five fields as stored, the empty sequence when there is
\* none, and changes no row.
C8_GetByClientExact ==
    last.op = "GetByClient" =>
        LET m == {r \in table : r.client = last.client}
            res == last.parcels
        IN  /\ last.err = ErrNil
            /\ table = before
            /\ Len(res) = Cardinality(m)
            /\ \A i, j \in 1 .. Len(res) : i # j => res[i] # res[j]
            /\ {res[i] : i \in 1 .. Len(res)}
                  = {[Number |-> r.number, Client |-> r.client,
                      Status |-> r.status, Address |-> r.address,
                      CreatedAt |-> r.created_at] : r \in m}
            /\ m = {} => res = <<>>

C8_Witness ==
    /\ last.op = "GetByClient"
    /\ Len(last.parcels) >= 2
    /\ last.parcels[1].Address # last.parcels[2].Address

\* C9: no two rows share a Number; no call other than Add changes the set of
\* Numbers except Delete removing one, and each surviving row keeps its
\* Number, Client and CreatedAt; every Add returns a non-zero Number that is
\* in no row and was returned by no earlier Add, deleted or not.
C9_NumberUniqueStable ==
    /\ \A r1, r2 \in table : r1.number = r2.number => r1 = r2
    /\ \A i \in DOMAIN issued :
          /\ issued[i] # 0
          /\ \A j \in DOMAIN issued : i # j => issued[i] # issued[j]
    /\ last.op = "Add" =>
          /\ last.err = ErrNil
          /\ last.id = issued[Len(issued)]
          /\ last.id \notin Numbers(before)
          /\ Numbers(table) = Numbers(before) \cup {last.id}
    /\ last.op \in {"SetStatus", "SetAddress", "Get", "GetByClient"} =>
          Numbers(table) = Numbers(before)
    /\ last.op = "Delete" => Numbers(table) \subseteq Numbers(before)
    /\ last.op # "none" =>
          \A r \in before :
              \A r2 \in table :
                  r2.number = r.number =>
                      r2.client = r.client /\ r2.created_at = r.created_at

C9_Witness ==
    /\ last.op = "Add"
    /\ Len(issued) >= 2
    /\ \E i \in 1 .. (Len(issued) - 1) : issued[i] \notin Numbers(before)

\* C10: SetStatus, SetAddress and Delete on a number that identifies no row
\* return success, leave the table unchanged and create no row.
C10_MissingNumberNoOp ==
    (last.op \in {"SetStatus", "SetAddress", "Delete"}
        /\ last.number \notin Numbers(before)) =>
        /\ last.err = ErrNil
        /\ table = before
        /\ GetResult(before, last.number).err = ErrNoRows
        /\ GetResult(table, last.number).err = ErrNoRows

C10_Witness ==
    /\ last.op = "SetAddress"
    /\ last.number \in Returned
    /\ last.number \notin Numbers(before)
    /\ \E r \in before : r.status = Registered /\ r.address # last.text

----------------------------------------------------------------------------
(* The race of SetStatus against SetAddress or Delete (SpecConc) *)

RaceRow == CHOOSE r \in before : r.number = call["gate"].number

RaceOthers == before \ {RaceRow}

\* row n once the gated statement took effect, before or after the status change
GateApplied(statusDone) ==
    LET r == IF statusDone
             THEN [RaceRow EXCEPT !.status = call["status"].text]
             ELSE RaceRow
    IN  IF call["gate"].op = "Delete"
        THEN RaceOthers
        ELSE RaceOthers \cup {[r EXCEPT !.address = call["gate"].text]}

\* C4: in every interleaving of SetStatus(n, s), s # "registered", with
\* SetAddress(n, a) or Delete(n) on registered parcel n, the gated statement
\* takes effect entirely if it executes while the status is "registered" and
\* has no effect if it executes after the status change; the final table is
\* that of one of the two serial orders.
C4_RaceSerializable ==
    LET statusOnly == RaceOthers
                         \cup {[RaceRow EXCEPT !.status = call["status"].text]}
    IN  /\ order = <<>> => table = before
        /\ order = <<"gate">> => table = GateApplied(FALSE)
        /\ order = <<"status">> => table = statusOnly
        /\ order = <<"gate", "status">> => table = GateApplied(TRUE)
        /\ order = <<"status", "gate">> => table = statusOnly
        /\ (\A p \in Procs : pc[p] = "done") =>
              table \in {GateApplied(TRUE), statusOnly}

C4_Witness ==
    /\ \A p \in Procs : pc[p] = "done"
    /\ order = <<"status", "gate">>
    /\ call["gate"].op = "SetAddress"
    /\ call["gate"].text # RaceRow.address
    /\ RaceOthers # {}

====
